---------------------------- MODULE Spec2Model ----------------------------
(***************************************************************************)
(* Model of the Solar-Logger backup replay path:                           *)
(*   BackupReader.read_compressed_xz  (src/src/classes/backup_classes.py)  *)
(* feeding the bounded queue that MqttConnector.load_queue fills and the   *)
(* sink writers drain.  Lines are modelled as the text the dump holds; the *)
(* parsing steps (strip, startswith, the COPY pattern, the comma and tab   *)
(* splits, strptime, int, fromhex) are computed over that text.            *)
(***************************************************************************)
EXTENDS Integers, Sequences, FiniteSets, TLC

(***************************************************************************)
(* Bounds of the model.                                                    *)
(***************************************************************************)
\* number of lines the stream yields before it is exhausted
MaxLines == 4
\* capacity of the bounded queue (a configuration value)
Capacity == 2
\* number of items the live (non-replay) producer pushes
MaxLive == 1
\* number of sink-writer threads
NumConsumers == 2

(***************************************************************************)
(* Program constants.                                                      *)
(***************************************************************************)
LOG_INTERVAL_QUEUE == 50
LOG_INTERVAL_TABLE == 100000

\* raw_packet[3:]
PREFIX_LEN == 3

\* None as a table name, and None as a column index
None == "None"
NoIndex == -1

(***************************************************************************)
(* Text primitives (Python str methods used by the reader).                *)
(***************************************************************************)
Whitespace == {" ", "\t", "\n", "\r", "\f"}

Digits == {"0", "1", "2", "3", "4", "5", "6", "7", "8", "9"}

WordChars ==
    Digits \cup {"_"} \cup
    {"a", "b", "c", "d", "e", "f", "g", "h", "i", "j", "k", "l", "m",
     "n", "o", "p", "q", "r", "s", "t", "u", "v", "w", "x", "y", "z"} \cup
    {"A", "B", "C", "D", "E", "F", "G", "H", "I", "J", "K", "L", "M",
     "N", "O", "P", "Q", "R", "S", "T", "U", "V", "W", "X", "Y", "Z"}

CharAt(s, i) == SubSeq(s, i, i)

\* s[i:] with a 0-based Python index i >= 0
DropFirst(s, i) == SubSeq(s, i + 1, Len(s))

SetMin(S) == CHOOSE i \in S : \A j \in S : i <= j
SetMax(S) == CHOOSE i \in S : \A j \in S : j <= i

\* the indices of s that hold the character c
Occurrences(s, c) == {i \in 1..Len(s) : CharAt(s, i) = c}

\* the indices of s that hold no whitespace
Inked(s) == {i \in 1..Len(s) : CharAt(s, i) \notin Whitespace}

\* the part of s between the first and the last of the indices K
Between(s, K) == IF K = {} THEN "" ELSE SubSeq(s, SetMin(K), SetMax(K))

\* the part of s from the first of the indices K on
From(s, K) == IF K = {} THEN "" ELSE SubSeq(s, SetMin(K), Len(s))

\* str.lstrip()
LStrip(s) == From(s, Inked(s))

\* str.strip()
Strip(s) == Between(s, Inked(s))

\* str.startswith(p)
StartsWith(s, p) == Len(s) >= Len(p) /\ SubSeq(s, 1, Len(p)) = p

\* the least index in K, 0 if there is none
FirstOf(K) == IF K = {} THEN 0 ELSE SetMin(K)

\* the greatest index in K, 0 if there is none
LastOf(K) == IF K = {} THEN 0 ELSE SetMax(K)

\* index of the first occurrence of the character c in s, 0 if none
FindFirst(s, c) == FirstOf(Occurrences(s, c))

\* index of the last occurrence of the character c in s, 0 if none
FindLast(s, c) == LastOf(Occurrences(s, c))

\* the index of the k-th of the separators at the indices at; 0 and n + 1
\* fence the ends of a string of length n
Cut(at, k, n) ==
    IF k = 0 THEN 0
    ELSE IF k > Cardinality(at) THEN n + 1
    ELSE CHOOSE i \in at : Cardinality({j \in at : j < i}) = k - 1

\* the fields of s between the separators at the indices at
Fields(s, at) ==
    [k \in 1..(Cardinality(at) + 1) |->
        SubSeq(s, Cut(at, k - 1, Len(s)) + 1, Cut(at, k, Len(s)) - 1)]

\* str.split(sep) for a one-character separator: never empty, keeps empty fields
Split(s, sep) == Fields(s, Occurrences(s, sep))

\* str.replace(c, empty) for a one-character c
Remove(s, c) ==
    LET kept[i \in 0..Len(s)] ==
            IF i = 0 THEN ""
            ELSE IF CharAt(s, i) = c THEN kept[i - 1]
            ELSE kept[i - 1] \o CharAt(s, i)
    IN  kept[Len(s)]

\* length of the longest run of word characters starting at index i
WordRun(s, i) ==
    IF i > Len(s) THEN 0
    ELSE SetMin({j \in i..(Len(s) + 1) :
                    j > Len(s) \/ CharAt(s, j) \notin WordChars}) - i

(***************************************************************************)
(* Numbers.                                                                *)
(***************************************************************************)
DigitValue(c) ==
    CASE c = "0" -> 0 [] c = "1" -> 1 [] c = "2" -> 2 [] c = "3" -> 3
      [] c = "4" -> 4 [] c = "5" -> 5 [] c = "6" -> 6 [] c = "7" -> 7
      [] c = "8" -> 8 [] c = "9" -> 9

HexDigits ==
    Digits \cup {"a", "b", "c", "d", "e", "f", "A", "B", "C", "D", "E", "F"}

HexValue(c) ==
    CASE c \in Digits -> DigitValue(c)
      [] c \in {"a", "A"} -> 10 [] c \in {"b", "B"} -> 11
      [] c \in {"c", "C"} -> 12 [] c \in {"d", "D"} -> 13
      [] c \in {"e", "E"} -> 14 [] c \in {"f", "F"} -> 15

AllDigits(s) == Len(s) > 0 /\ \A i \in 1..Len(s) : CharAt(s, i) \in Digits

\* value of a string of decimal digits
DecimalValue(s) ==
    LET value[i \in 0..Len(s)] ==
            IF i = 0 THEN 0 ELSE 10 * value[i - 1] + DigitValue(CharAt(s, i))
    IN  value[Len(s)]

ValueError == "ValueError"
IndexError == "IndexError"
KeyError == "KeyError"

\* the result of a conversion that raised
Raised(error) == [ok |-> FALSE, exc |-> error]

\* a decimal literal with an optional sign
SignedValue(t, signed) ==
    IF ~AllDigits(SubSeq(t, IF signed THEN 2 ELSE 1, Len(t))) THEN Raised(ValueError)
    ELSE IF signed /\ CharAt(t, 1) = "-"
         THEN [ok |-> TRUE, value |-> 0 - DecimalValue(SubSeq(t, 2, Len(t)))]
    ELSE [ok |-> TRUE, value |-> DecimalValue(SubSeq(t, IF signed THEN 2 ELSE 1, Len(t)))]

SignedLiteral(t) == SignedValue(t, Len(t) > 0 /\ CharAt(t, 1) \in {"+", "-"})

\* int(s): surrounding whitespace, an optional sign, decimal digits
ParseInt(s) == SignedLiteral(Strip(s))

\* the conversion taking the low digit of each pair first
FromHexLowDigitFirst(s) ==
    LET from[i \in 1..(Len(s) + 1)] ==
            IF i > Len(s) THEN [ok |-> TRUE, bytes |-> <<>>]
            ELSE IF CharAt(s, i) \in Whitespace THEN from[i + 1]
            ELSE IF \/ i + 1 > Len(s)
                    \/ CharAt(s, i) \notin HexDigits
                    \/ CharAt(s, i + 1) \notin HexDigits
                 THEN Raised(ValueError)
            ELSE LET rest == from[i + 2] IN
                 IF ~rest.ok THEN rest
                 ELSE [ok |-> TRUE,
                       bytes |-> <<HexValue(CharAt(s, i))
                                   + 16 * HexValue(CharAt(s, i + 1))>> \o rest.bytes]
    IN  from[1]

\* bytearray.fromhex(s): pairs of hex digits, whitespace allowed between pairs
FromHex(s) ==
    LET from[i \in 1..(Len(s) + 1)] ==
            IF i > Len(s) THEN [ok |-> TRUE, bytes |-> <<>>]
            ELSE IF CharAt(s, i) \in Whitespace THEN from[i + 1]
            ELSE IF \/ i + 1 > Len(s)
                    \/ CharAt(s, i) \notin HexDigits
                    \/ CharAt(s, i + 1) \notin HexDigits
                 THEN Raised(ValueError)
            ELSE LET rest == from[i + 2] IN
                 IF ~rest.ok THEN rest
                 ELSE [ok |-> TRUE,
                       bytes |-> <<16 * HexValue(CharAt(s, i))
                                   + HexValue(CharAt(s, i + 1))>> \o rest.bytes]
    IN  from[1]

(***************************************************************************)
(* datetime.strptime for the two formats the reader accepts.               *)
(***************************************************************************)
\* v when it lies in lo..hi, else -1
Bounded(v, lo, hi) == IF v >= lo /\ v <= hi THEN v ELSE -1

\* a numeric directive of one or two digits (%m %d %H %M %S): its value, or -1
TwoDigitField(s, lo, hi) ==
    Bounded(IF AllDigits(s) /\ Len(s) <= 2 THEN DecimalValue(s) ELSE -1, lo, hi)

\* %Y: four digits
YearField(s) == IF AllDigits(s) /\ Len(s) = 4 THEN DecimalValue(s) ELSE -1

IsLeap(y) == (y % 4 = 0 /\ y % 100 # 0) \/ y % 400 = 0

DaysInMonth(y, m) ==
    IF m = 2 THEN (IF IsLeap(y) THEN 29 ELSE 28)
    ELSE IF m \in {4, 6, 9, 11} THEN 30
    ELSE 31

\* %f: one to six digits, read as a fraction of a second
Microseconds(s) ==
    IF AllDigits(s) /\ Len(s) <= 6
    THEN DecimalValue(s \o SubSeq("000000", 1, 6 - Len(s)))
    ELSE -1

\* the datetime of the parsed directives; a directive out of range, second 60
\* or 61 and a day the month does not have raise
MakeDatetime(y, mo, d, h, mi, se, us) ==
    IF \/ y < 1 \/ mo < 0 \/ d < 0 \/ h < 0 \/ mi < 0 \/ se < 0 \/ us < 0
       \/ se > 59
       \/ d > DaysInMonth(y, mo)
    THEN Raised(ValueError)
    ELSE [ok |-> TRUE, year |-> y, month |-> mo, day |-> d, hour |-> h,
          minute |-> mi, second |-> se, microsecond |-> us]

ParseDirectives(Y, m, d, H, M, secs, withFraction) ==
    IF Len(secs) # (IF withFraction THEN 2 ELSE 1) THEN Raised(ValueError)
    ELSE MakeDatetime(YearField(Y), TwoDigitField(m, 1, 12), TwoDigitField(d, 1, 31),
                      TwoDigitField(H, 0, 23), TwoDigitField(M, 0, 59),
                      TwoDigitField(secs[1], 0, 61),
                      IF withFraction THEN Microseconds(secs[2]) ELSE 0)

ParseDateTime(date, time, withFraction) ==
    IF Len(date) # 3 \/ Len(time) # 3 THEN Raised(ValueError)
    ELSE ParseDirectives(date[1], date[2], date[3], time[1], time[2],
                         Split(time[3], "."), withFraction)

\* the text before the space at index sp, and the text after the whitespace there
SplitDateTime(s, sp, withFraction) ==
    IF sp = 0 THEN Raised(ValueError)
    ELSE ParseDateTime(Split(SubSeq(s, 1, sp - 1), "-"),
                       Split(LStrip(SubSeq(s, sp + 1, Len(s))), ":"), withFraction)

\* strptime(s, %Y-%m-%d %H:%M:%S.%f) when withFraction, else %Y-%m-%d %H:%M:%S
Strptime(s, withFraction) == SplitDateTime(s, FindFirst(s, " "), withFraction)

FirstOk(a, b) == IF a.ok THEN a ELSE b

\* the try/except around the two strptime calls
ParseTimestamp(s) == FirstOk(Strptime(s, TRUE), Strptime(s, FALSE))

(***************************************************************************)
(* The table-start marker: the re.match of the COPY pattern on the line.  *)
(***************************************************************************)
NoMatch == [matched |-> FALSE, name |-> "", columns |-> ""]

\* group 1 is the n word characters after the COPY prefix, group 2 runs from the
\* opening parenthesis that follows them to the closing parenthesis at close
MatchAt(text, n, close) ==
    IF /\ StartsWith(text, "COPY ")
       /\ n > 0
       /\ SubSeq(text, 6 + n, 7 + n) = " ("
       /\ close > 7 + n
    THEN [matched |-> TRUE,
          name |-> SubSeq(text, 6, 5 + n),
          columns |-> SubSeq(text, 8 + n, close - 1)]
    ELSE NoMatch

\* \w+ takes the longest run of word characters, and the greedy .* runs to the
\* last closing parenthesis of the line
MatchCopy(text) == MatchAt(text, WordRun(text, 6), FindLast(text, ")"))

\* c.replace(double quote, empty).strip()
CleanColumn(c) == Strip(Remove(c, "\""))

CleanAll(raw) == [i \in 1..Len(raw) |-> CleanColumn(raw[i])]

\* g_columns: the declared column names
Columns(decl) == CleanAll(Split(decl, ","))

\* the lookup keeping the 1-based position
LastIndexOneBased(hits) ==
    IF hits = {} THEN Raised(KeyError) ELSE [ok |-> TRUE, value |-> SetMax(hits)]

\* the 0-based index of the last of the 1-based indices hits, or KeyError
LastIndex(hits) ==
    IF hits = {} THEN Raised(KeyError) ELSE [ok |-> TRUE, value |-> SetMax(hits) - 1]

\* g_columns_map[name]: the 0-based index the dict comprehension keeps for name
\* (the last one when a name is declared twice), or KeyError
ColumnIndex(cols, name) == LastIndex({i \in 1..Len(cols) : cols[i] = name})

(***************************************************************************)
(* Row decoding: the body of _extract_column_in up to the dispatch.        *)
(***************************************************************************)
\* timestamp_utc.replace(tzinfo=tz.tzoffset(name, timedelta(seconds=int(tzoffset))))
WithOffset(ts, seconds) ==
    [year |-> ts.year, month |-> ts.month, day |-> ts.day, hour |-> ts.hour,
     minute |-> ts.minute, second |-> ts.second, microsecond |-> ts.microsecond,
     utcoffset |-> seconds]

\* cells[i] for a 0-based index i
HasCell(cells, i) == i >= 0 /\ i < Len(cells)

\* the timestamp and the packet handed to _column_in, or the ValueError of the
\* conversion that failed
MakeRow(ts, off, packet) ==
    IF ~ts.ok \/ ~off.ok \/ ~packet.ok THEN Raised(ValueError)
    ELSE [ok |-> TRUE,
          timestamp |-> WithOffset(ts, off.value),
          raw_packet |-> packet.bytes]

DecodeCells(cells, col_timestamp, col_tzoffset, col_raw) ==
    IF \/ ~HasCell(cells, col_timestamp)
       \/ ~HasCell(cells, col_tzoffset)
       \/ ~HasCell(cells, col_raw)
    THEN Raised(IndexError)
    ELSE MakeRow(ParseTimestamp(cells[col_timestamp + 1]),
                 ParseInt(cells[col_tzoffset + 1]),
                 FromHex(DropFirst(cells[col_raw + 1], PREFIX_LEN)))

DecodeRow(text, col_timestamp, col_tzoffset, col_raw) ==
    DecodeCells(Split(text, "\t"), col_timestamp, col_tzoffset, col_raw)

(***************************************************************************)
(* Dispatch: _column_in.                                                   *)
(***************************************************************************)
\* MqttTopics.dc_name
dc_name == "MqttTopics.dc_name"

\* PyMateDecoder.dc_decoder / mx_decoder / fx_decoder: the field mapping of a
\* packet, kept as the decoder applied and the bytes it was given
dc_decoder(raw_packet) == [decoder |-> "dc", packet |-> raw_packet]
mx_decoder(raw_packet) == [decoder |-> "mx", packet |-> raw_packet]
fx_decoder(raw_packet) == [decoder |-> "fx", packet |-> raw_packet]

\* QueuePackage(measurement, time_field, field)
QueuePackage(measurement, time_field, field) ==
    [measurement |-> measurement, time_field |-> time_field, field |-> field]

\* _column_in without the mx_status branch
ColumnInWithoutMx(table_name, row_num, timestamp, raw_packet) ==
    IF table_name = "dc_status"
    THEN <<[measurement |-> dc_name, time_field |-> timestamp,
            payload |-> dc_decoder(raw_packet),
            log |-> (row_num % LOG_INTERVAL_QUEUE = 0)]>>
    ELSE IF table_name = "fx_status"
    THEN <<[measurement |-> dc_name, time_field |-> timestamp,
            payload |-> fx_decoder(raw_packet),
            log |-> (row_num % LOG_INTERVAL_QUEUE = 0)]>>
    ELSE <<>>

\* _column_in sending the rows of every other table to the mx decoder
ColumnInDefaultMx(table_name, row_num, timestamp, raw_packet) ==
    IF table_name = "dc_status"
    THEN <<[measurement |-> dc_name, time_field |-> timestamp,
            payload |-> dc_decoder(raw_packet),
            log |-> (row_num % LOG_INTERVAL_QUEUE = 0)]>>
    ELSE IF table_name = "fx_status"
    THEN <<[measurement |-> dc_name, time_field |-> timestamp,
            payload |-> fx_decoder(raw_packet),
            log |-> (row_num % LOG_INTERVAL_QUEUE = 0)]>>
    ELSE <<[measurement |-> dc_name, time_field |-> timestamp,
            payload |-> mx_decoder(raw_packet),
            log |-> (row_num % LOG_INTERVAL_QUEUE = 0)]>>

\* the load_queue calls _column_in makes for one row: none or one
ColumnIn(table_name, row_num, timestamp, raw_packet) ==
    IF table_name = "dc_status"
    THEN <<[measurement |-> dc_name, time_field |-> timestamp,
            payload |-> dc_decoder(raw_packet),
            log |-> (row_num % LOG_INTERVAL_QUEUE = 0)]>>
    ELSE IF table_name = "mx_status"
    THEN <<[measurement |-> dc_name, time_field |-> timestamp,
            payload |-> mx_decoder(raw_packet),
            log |-> (row_num % LOG_INTERVAL_QUEUE = 0)]>>
    ELSE IF table_name = "mx_logpage"
    THEN <<>>
    ELSE IF table_name = "fx_status"
    THEN <<[measurement |-> dc_name, time_field |-> timestamp,
            payload |-> fx_decoder(raw_packet),
            log |-> (row_num % LOG_INTERVAL_QUEUE = 0)]>>
    ELSE <<>>

(***************************************************************************)
(* The lines the stream can yield, as the file holds them (line_raw).      *)
(***************************************************************************)
Lines ==
    { "COPY dc_status (timestamp, tzoffset, raw_packet) FROM stdin;\n",
      "COPY mx_status (id, \"timestamp\", tzoffset, raw_packet) FROM stdin;\n",
      "  COPY fx_status (id,\"timestamp\" , tzoffset,raw_packet , \"raw_packet\" ) FROM stdin;\n",
      "COPY mx_logpage (timestamp, tzoffset, raw_packet) FROM stdin;\n",
      "COPY fx_logpage (timestamp, tzoffset, raw_packet) FROM stdin;\n",
      "COPY mate_log (id, timestamp, raw_packet) FROM stdin;\n",
      "COPY dc_status FROM stdin;\n",
      "-- Completed on 2020-01-01 00:00:09\n",
      "\\.\n",
      "\n",
      "2020-01-01 00:00:00.123456\t46800\t\\\\x00112233\n",
      "2020-02-29 23:59:59\t43200\t\\\\x0a0B\n",
      "7\t2020-01-01 00:00:01\t43200\t\\\\x0c\t\\\\x0d\n",
      "2020-01-01 00:00:03\n",
      "2020-01-01 00:00:06\t43200\t\\\\x0a 0b\n",
      "2020-01-01 00:00:07\t43200\t\\\\x0a0\n",
      "2020-01-01 00:00:08\t43200\t\\\\x0g\n",
      "\t2020-01-01 00:00:05\t43200\t\\\\x0f\n",
      "-- Completed\t2020-01-01 00:00:04\t43200\t\\\\x0e\n",
      "SET statement_timeout = 0;\n" }

\* line_raw.decode(ascii).strip(), for each line of the stream
StrippedLine == [line_raw \in Lines |-> Strip(line_raw)]

StrippedLines == {StrippedLine[line_raw] : line_raw \in Lines}

\* the match object of each line
CopyMatch == [l \in StrippedLines |-> MatchCopy(l)]

RequiredIn(cols) ==
    [timestamp |-> ColumnIndex(cols, "timestamp"),
     tzoffset |-> ColumnIndex(cols, "tzoffset"),
     raw_packet |-> ColumnIndex(cols, "raw_packet")]

\* the three lookups in g_columns_map for a declared column list
RequiredOf(decl) == RequiredIn(Columns(decl))

\* the lines the COPY pattern matches
MatchedLines == {l \in StrippedLines : CopyMatch[l].matched}

\* the three lookups, for each line the pattern matches
RequiredColumns == [l \in MatchedLines |-> RequiredOf(CopyMatch[l].columns)]

\* the index triples a table of the stream can cache
AllFound(req) == req.timestamp.ok /\ req.tzoffset.ok /\ req.raw_packet.ok

Layouts ==
    {<<RequiredColumns[l].timestamp.value, RequiredColumns[l].tzoffset.value,
       RequiredColumns[l].raw_packet.value>> :
        l \in {m \in MatchedLines : AllFound(RequiredColumns[m])}}

\* the decoding of each line under each layout
DecodedRows ==
    [l \in StrippedLines, k \in Layouts |-> DecodeRow(l, k[1], k[2], k[3])]

DecodedRow(l, col_timestamp, col_tzoffset, col_raw) ==
    IF <<col_timestamp, col_tzoffset, col_raw>> \in Layouts
    THEN DecodedRows[l, <<col_timestamp, col_tzoffset, col_raw>>]
    ELSE DecodeRow(l, col_timestamp, col_tzoffset, col_raw)

\* the column names each matching line declares, quotes and blanks removed
DeclaredNames ==
    [l \in MatchedLines |->
        {Columns(CopyMatch[l].columns)[i] :
            i \in 1..Len(Columns(CopyMatch[l].columns))}]

RequiredNames == {"timestamp", "tzoffset", "raw_packet"}

\* a line of the form COPY name (columns) that declares every required column
DeclaresRequired(l) == l \in MatchedLines /\ RequiredNames \subseteq DeclaredNames[l]

\* a line of the form COPY name (columns) that lacks a required column
LacksRequired(l) == l \in MatchedLines /\ ~(RequiredNames \subseteq DeclaredNames[l])

(***************************************************************************)
(* State.                                                                  *)
(***************************************************************************)
VARIABLES
    \* BackupReader fields
    g_col_raw, g_col_timestamp, g_col_tzoffset,
    g_lines_read, g_read_rows, g_table_name,
    \* read_compressed_xz: where the call is, the exception that left it, the
    \* stream handle, the number of lines read and the current stripped line
    pc, exc, open_file, nread, line,
    \* the _start_table / _end_table calls made so far
    events,
    \* the bounded queue, and the load_queue call the reader is suspended in
    queue, pending,
    \* the live producer: items pushed, and where it is
    live_pc, live_count,
    \* history: every item the queue accepted and every item it returned
    enqueued, dequeued,
    \* history of the current section: the row lines handed to
    \* _extract_column_in, the row_num arguments of its _column_in calls, what
    \* each of these rows logged, and the items the reader has put on the queue
    rows, handed, logged, sent,
    \* history: the COPY line that opened the current section, and whether the
    \* last COPY line read outside a section lacked a required column
    header, skipped

reader == <<g_col_raw, g_col_timestamp, g_col_tzoffset,
            g_lines_read, g_read_rows, g_table_name>>

vars == <<g_col_raw, g_col_timestamp, g_col_tzoffset,
          g_lines_read, g_read_rows, g_table_name,
          pc, exc, open_file, nread, line, events,
          queue, pending, live_pc, live_count,
          enqueued, dequeued, rows, handed, logged, sent, header, skipped>>

Consumers == 1..NumConsumers

NoCall == <<>>

Init ==
    /\ g_col_raw = NoIndex
    /\ g_col_timestamp = NoIndex
    /\ g_col_tzoffset = NoIndex
    /\ g_lines_read = 0
    /\ g_read_rows = FALSE
    /\ g_table_name = None
    /\ pc = "call"
    /\ exc = ""
    /\ open_file = "unopened"
    /\ nread = 0
    /\ line = ""
    /\ events = <<>>
    /\ queue = <<>>
    /\ pending = NoCall
    /\ live_pc = "idle"
    /\ live_count = 0
    /\ enqueued = <<>>
    /\ dequeued = <<>>
    /\ rows = <<>>
    /\ handed = <<>>
    /\ logged = <<>>
    /\ sent = <<>>
    /\ header = ""
    /\ skipped = FALSE

(***************************************************************************)
(* The bounded queue (MqttConnector.load_queue and the sink writers).      *)
(***************************************************************************)
\* the room test with the comparison off by one
HasRoomOffByOne(q) == Len(q) <= Capacity

\* the room test left out
HasRoomAlways(q) == TRUE

\* the room test inverted
HasRoomInverted(q) == Len(q) >= Capacity

\* the room test keeping one slot free
HasRoomSlotFree(q) == Len(q) < Capacity - 1

\* enqueue waits while length = capacity
HasRoom(q) == Len(q) < Capacity

\* the item a load_queue call puts on the queue
PackageOf(call) == QueuePackage(call.measurement, call.time_field, call.payload)

\* enqueue: append at the tail
Push(q, item) == Append(q, item)

\* dequeue returning the newest item
Newest(q) == q[Len(q)]

\* dequeue: the oldest item, and the queue without it
Oldest(q) == Head(q)
WithoutOldest(q) == Tail(q)

(***************************************************************************)
(* read_compressed_xz.                                                     *)
(***************************************************************************)
\* lzma.open at the head of the with block: the stream opens or the call raises
OpenFile ==
    /\ pc = "call"
    /\ \E opened \in BOOLEAN :
          IF opened
          THEN /\ pc' = "loop"
               /\ open_file' = "open"
               /\ exc' = exc
          ELSE /\ pc' = "raised"
               /\ open_file' = "unopened"
               /\ exc' = "OSError"
    /\ UNCHANGED <<reader, nread, line, events, queue, pending, live_pc,
                   live_count, enqueued, dequeued, rows, handed, logged, sent, header, skipped>>

\* the terminator test without the empty line
IsTerminatorDotOnly(l) == l = "\\."

\* line == "\\." or not line
IsTerminator(l) == l = "\\." \/ l = ""

\* the marker test as an equality
IsEndOfBackupExact(l) == l = "-- Completed"

\* line.startswith("-- Completed")
IsEndOfBackup(l) == StartsWith(l, "-- Completed")

\* _extract_start_table with the two assignments that open the section moved
\* in front of the column lookups
ExtractStartTableFlagFirst(l) ==
    [raised |-> ~AllFound(RequiredColumns[l]),
     table_name |-> CopyMatch[l].name,
     col_timestamp |-> IF RequiredColumns[l].timestamp.ok
                       THEN RequiredColumns[l].timestamp.value ELSE g_col_timestamp,
     col_tzoffset |-> IF RequiredColumns[l].timestamp.ok /\ RequiredColumns[l].tzoffset.ok
                      THEN RequiredColumns[l].tzoffset.value ELSE g_col_tzoffset,
     col_raw |-> IF AllFound(RequiredColumns[l])
                 THEN RequiredColumns[l].raw_packet.value ELSE g_col_raw,
     read_rows |-> TRUE,
     lines_read |-> 0]

\* _extract_start_table caching each index only while it is still None
ExtractStartTableCachedOnce(l) ==
    [raised |-> ~AllFound(RequiredColumns[l]),
     table_name |-> CopyMatch[l].name,
     col_timestamp |-> IF RequiredColumns[l].timestamp.ok /\ g_col_timestamp = NoIndex
                       THEN RequiredColumns[l].timestamp.value ELSE g_col_timestamp,
     col_tzoffset |-> IF /\ RequiredColumns[l].timestamp.ok
                         /\ RequiredColumns[l].tzoffset.ok
                         /\ g_col_tzoffset = NoIndex
                      THEN RequiredColumns[l].tzoffset.value ELSE g_col_tzoffset,
     col_raw |-> IF AllFound(RequiredColumns[l]) /\ g_col_raw = NoIndex
                 THEN RequiredColumns[l].raw_packet.value ELSE g_col_raw,
     read_rows |-> IF AllFound(RequiredColumns[l]) THEN TRUE ELSE g_read_rows,
     lines_read |-> IF AllFound(RequiredColumns[l]) THEN 0 ELSE g_lines_read]

\* _extract_start_table without the reset of g_lines_read
ExtractStartTableNoReset(l) ==
    [raised |-> ~AllFound(RequiredColumns[l]),
     table_name |-> CopyMatch[l].name,
     col_timestamp |-> IF RequiredColumns[l].timestamp.ok
                       THEN RequiredColumns[l].timestamp.value ELSE g_col_timestamp,
     col_tzoffset |-> IF RequiredColumns[l].timestamp.ok /\ RequiredColumns[l].tzoffset.ok
                      THEN RequiredColumns[l].tzoffset.value ELSE g_col_tzoffset,
     col_raw |-> IF AllFound(RequiredColumns[l])
                 THEN RequiredColumns[l].raw_packet.value ELSE g_col_raw,
     read_rows |-> IF AllFound(RequiredColumns[l]) THEN TRUE ELSE g_read_rows,
     lines_read |-> g_lines_read]

\* _extract_start_table: the fields after the call and whether it raised.  The
\* three indices are assigned in order, so a KeyError leaves the later ones
\* as they were.
ExtractStartTable(l) ==
    LET ts == RequiredColumns[l].timestamp
        tz == RequiredColumns[l].tzoffset
        raw == RequiredColumns[l].raw_packet
        found == AllFound(RequiredColumns[l])
    IN  [raised |-> ~found,
         table_name |-> CopyMatch[l].name,
         col_timestamp |-> IF ts.ok THEN ts.value ELSE g_col_timestamp,
         col_tzoffset |-> IF ts.ok /\ tz.ok THEN tz.value ELSE g_col_tzoffset,
         col_raw |-> IF found THEN raw.value ELSE g_col_raw,
         read_rows |-> IF found THEN TRUE ELSE g_read_rows,
         lines_read |-> IF found THEN 0 ELSE g_lines_read]

\* the block left without the with statement closing the handle
LeaveWithoutClose(how, error) ==
    /\ pc' = how
    /\ exc' = error
    /\ open_file' = open_file

\* the with block's exit: the handle is closed however the block is left
Leave(how, error) ==
    /\ pc' = how
    /\ exc' = error
    /\ open_file' = "closed"

Continue ==
    /\ pc' = "loop"
    /\ exc' = exc
    /\ open_file' = open_file

\* the branch taken for a terminator line while reading rows
EndTable ==
    /\ events' = Append(events, [event |-> "end", table |-> g_table_name,
                                 rows_read |-> g_lines_read])
    /\ g_read_rows' = FALSE
    /\ Continue
    /\ UNCHANGED <<g_col_raw, g_col_timestamp, g_col_tzoffset, g_lines_read,
                   g_table_name, queue, pending, enqueued, rows, handed, logged, sent>>

\* the progress test made with the interval of the queue log
LogsProgressAtQueueInterval(lines_read) == lines_read % LOG_INTERVAL_QUEUE = 0

\* if self.g_lines_read % LOG_INTERVAL_TABLE == 0: the progress line is logged
LogsProgress(lines_read) == lines_read % LOG_INTERVAL_TABLE = 0

\* the log arguments of the load_queue calls made for a row
QueueLogs(calls) == [k \in 1..Len(calls) |-> calls[k].log]

\* _extract_column_in(line), with the load_queue call _column_in makes
ExtractColumnIn(l) ==
    LET row == DecodedRow(l, g_col_timestamp, g_col_tzoffset, g_col_raw)
        row_num == g_lines_read + 1
        calls == IF row.ok
                 THEN ColumnIn(g_table_name, row_num, row.timestamp, row.raw_packet)
                 ELSE <<>>
    IN  /\ g_lines_read' = row_num
        /\ rows' = Append(rows, l)
        /\ handed' = IF row.ok THEN Append(handed, row_num) ELSE handed
        /\ logged' = IF row.ok
                     THEN Append(logged, [row_num |-> row_num,
                                          progress |-> LogsProgress(row_num),
                                          queue_log |-> QueueLogs(calls)])
                     ELSE logged
        /\ UNCHANGED <<g_col_raw, g_col_timestamp, g_col_tzoffset, g_read_rows,
                       g_table_name, events>>
        /\ IF ~row.ok
           THEN /\ Leave("raised", row.exc)
                /\ UNCHANGED <<queue, pending, enqueued, sent>>
           ELSE IF calls = <<>>
           THEN /\ Continue
                /\ UNCHANGED <<queue, pending, enqueued, sent>>
           ELSE IF HasRoom(queue)
           THEN /\ queue' = Push(queue, PackageOf(calls[1]))
                /\ enqueued' = Append(enqueued, PackageOf(calls[1]))
                /\ sent' = Append(sent, PackageOf(calls[1]))
                /\ pending' = pending
                /\ Continue
           ELSE /\ pending' = calls
                /\ pc' = "load_queue"
                /\ exc' = exc
                /\ open_file' = open_file
                /\ UNCHANGED <<queue, enqueued, sent>>

\* the COPY branch using the match object without testing it
StartTableUnchecked(l) ==
    IF ~CopyMatch[l].matched
    THEN /\ Leave("raised", "TypeError")
         /\ UNCHANGED <<reader, events, rows, handed, logged, sent>>
    ELSE /\ g_table_name' = ExtractStartTable(l).table_name
         /\ g_col_timestamp' = ExtractStartTable(l).col_timestamp
         /\ g_col_tzoffset' = ExtractStartTable(l).col_tzoffset
         /\ g_col_raw' = ExtractStartTable(l).col_raw
         /\ g_read_rows' = ExtractStartTable(l).read_rows
         /\ g_lines_read' = ExtractStartTable(l).lines_read
         /\ events' = IF ExtractStartTable(l).raised THEN events
                      ELSE Append(events, [event |-> "start",
                                           table |-> ExtractStartTable(l).table_name,
                                           rows_read |-> 0])
         /\ rows' = IF ExtractStartTable(l).raised THEN rows ELSE <<>>
         /\ handed' = IF ExtractStartTable(l).raised THEN handed ELSE <<>>
         /\ logged' = IF ExtractStartTable(l).raised THEN logged ELSE <<>>
         /\ sent' = IF ExtractStartTable(l).raised THEN sent ELSE <<>>
         /\ Continue

\* the COPY branch calling _start_table also when _extract_start_table raised
StartTableAlwaysAnnounces(l) ==
    IF ~CopyMatch[l].matched
    THEN /\ Continue
         /\ UNCHANGED <<reader, events, rows, handed, logged, sent>>
    ELSE /\ g_table_name' = ExtractStartTable(l).table_name
         /\ g_col_timestamp' = ExtractStartTable(l).col_timestamp
         /\ g_col_tzoffset' = ExtractStartTable(l).col_tzoffset
         /\ g_col_raw' = ExtractStartTable(l).col_raw
         /\ g_read_rows' = ExtractStartTable(l).read_rows
         /\ g_lines_read' = ExtractStartTable(l).lines_read
         /\ events' = Append(events, [event |-> "start",
                                      table |-> ExtractStartTable(l).table_name,
                                      rows_read |-> 0])
         /\ rows' = IF ExtractStartTable(l).raised THEN rows ELSE <<>>
         /\ handed' = IF ExtractStartTable(l).raised THEN handed ELSE <<>>
         /\ logged' = IF ExtractStartTable(l).raised THEN logged ELSE <<>>
         /\ sent' = IF ExtractStartTable(l).raised THEN sent ELSE <<>>
         /\ Continue

\* the branch taken for a line that starts with COPY while seeking a table
StartTable(l) ==
    IF ~CopyMatch[l].matched
    THEN /\ Continue
         /\ UNCHANGED <<reader, events, rows, handed, logged, sent>>
    ELSE
    LET t == ExtractStartTable(l)
    IN  /\ g_table_name' = t.table_name
        /\ g_col_timestamp' = t.col_timestamp
        /\ g_col_tzoffset' = t.col_tzoffset
        /\ g_col_raw' = t.col_raw
        /\ g_read_rows' = t.read_rows
        /\ g_lines_read' = t.lines_read
        /\ events' = IF t.raised THEN events
                     ELSE Append(events, [event |-> "start",
                                          table |-> t.table_name,
                                          rows_read |-> 0])
        /\ rows' = IF t.raised THEN rows ELSE <<>>
        /\ handed' = IF t.raised THEN handed ELSE <<>>
        /\ logged' = IF t.raised THEN logged ELSE <<>>
        /\ sent' = IF t.raised THEN sent ELSE <<>>
        /\ Continue

\* one iteration of the for loop over the stream
ReadLine ==
    /\ pc = "loop"
    /\ nread < MaxLines
    /\ \E line_raw \in Lines :
          LET l == StrippedLine[line_raw] IN
          /\ line' = l
          /\ nread' = nread + 1
          /\ header' = IF ~g_read_rows /\ DeclaresRequired(l) THEN l ELSE header
          /\ skipped' = IF g_read_rows THEN skipped
                        ELSE IF LacksRequired(l) THEN TRUE
                        ELSE IF DeclaresRequired(l) THEN FALSE
                        ELSE skipped
          /\ IF g_read_rows
             THEN IF IsTerminator(l) THEN EndTable ELSE ExtractColumnIn(l)
             ELSE IF StartsWith(l, "COPY ")
             THEN /\ StartTable(l)
                  /\ UNCHANGED <<queue, pending, enqueued>>
             ELSE IF IsEndOfBackup(l)
             THEN /\ Leave("done", exc)
                  /\ UNCHANGED <<reader, events, queue, pending, enqueued,
                                 rows, handed, logged, sent>>
             ELSE /\ Continue
                  /\ UNCHANGED <<reader, events, queue, pending, enqueued,
                                 rows, handed, logged, sent>>
    /\ UNCHANGED <<live_pc, live_count, dequeued>>

\* the stream is exhausted: the for loop ends and the with block is left
EndOfStream ==
    /\ pc = "loop"
    /\ Leave("done", exc)
    /\ UNCHANGED <<reader, nread, line, events, queue, pending, live_pc,
                   live_count, enqueued, dequeued, rows, handed, logged, sent, header, skipped>>

\* the reader, suspended in load_queue on a full queue, finds room
LoadQueueResume ==
    /\ pc = "load_queue"
    /\ HasRoom(queue)
    /\ queue' = Push(queue, PackageOf(pending[1]))
    /\ enqueued' = Append(enqueued, PackageOf(pending[1]))
    /\ sent' = Append(sent, PackageOf(pending[1]))
    /\ pending' = NoCall
    /\ pc' = "loop"
    /\ UNCHANGED <<reader, exc, open_file, nread, line, events, live_pc,
                   live_count, dequeued, rows, handed, logged, header, skipped>>

(***************************************************************************)
(* The live producer and the sink writers.                                 *)
(***************************************************************************)
\* the k-th measurement of the live source
LiveItem(k) ==
    QueuePackage("live",
                 [year |-> 2022, month |-> 1, day |-> 1, hour |-> 0, minute |-> 0,
                  second |-> k, microsecond |-> 0, utcoffset |-> 0],
                 [decoder |-> "live", packet |-> <<k>>])

\* the live producer calls load_queue: it appends, or suspends on a full queue
LivePush ==
    /\ live_pc = "idle"
    /\ live_count < MaxLive
    /\ IF HasRoom(queue)
       THEN /\ queue' = Push(queue, LiveItem(live_count + 1))
            /\ enqueued' = Append(enqueued, LiveItem(live_count + 1))
            /\ live_count' = live_count + 1
            /\ live_pc' = "idle"
       ELSE /\ live_pc' = "load_queue"
            /\ UNCHANGED <<queue, enqueued, live_count>>
    /\ UNCHANGED <<reader, pc, exc, open_file, nread, line, events, pending,
                   dequeued, rows, handed, logged, sent, header, skipped>>

\* the suspended live producer finds room
LiveResume ==
    /\ live_pc = "load_queue"
    /\ HasRoom(queue)
    /\ queue' = Push(queue, LiveItem(live_count + 1))
    /\ enqueued' = Append(enqueued, LiveItem(live_count + 1))
    /\ live_count' = live_count + 1
    /\ live_pc' = "idle"
    /\ UNCHANGED <<reader, pc, exc, open_file, nread, line, events, pending,
                   dequeued, rows, handed, logged, sent, header, skipped>>

\* sink writer c takes the oldest item; it waits while the queue is empty
Dequeue(c) ==
    /\ queue # <<>>
    /\ dequeued' = Append(dequeued, Oldest(queue))
    /\ queue' = WithoutOldest(queue)
    /\ UNCHANGED <<reader, pc, exc, open_file, nread, line, events, pending,
                   live_pc, live_count, enqueued, rows, handed, logged, sent, header, skipped>>

Next ==
    \/ OpenFile
    \/ ReadLine
    \/ EndOfStream
    \/ LoadQueueResume
    \/ LivePush
    \/ LiveResume
    \/ \E c \in Consumers : Dequeue(c)

Spec == Init /\ [][Next]_vars

\* the index triple the COPY line h declares for the required columns
LayoutOf(h) ==
    <<RequiredColumns[h].timestamp.value, RequiredColumns[h].tzoffset.value,
      RequiredColumns[h].raw_packet.value>>

\* The reader observed inside a section after it has read many rows: the COPY
\* line that opened the section, the number of rows read and the last row
\* read are drawn from small sets.  The line count and the histories start at
\* the observed state.
OpeningLines == {l \in MatchedLines : AllFound(RequiredColumns[l])}

RowsAlreadyRead == {48, 99998}

LogInit ==
    \E h \in OpeningLines, n \in RowsAlreadyRead :
        \E last \in {l \in StrippedLines : DecodedRows[l, LayoutOf(h)].ok} :
            /\ g_table_name = CopyMatch[h].name
            /\ g_col_timestamp = LayoutOf(h)[1]
            /\ g_col_tzoffset = LayoutOf(h)[2]
            /\ g_col_raw = LayoutOf(h)[3]
            /\ g_lines_read = n
            /\ g_read_rows = TRUE
            /\ pc = "loop"
            /\ exc = ""
            /\ open_file = "open"
            /\ nread = 1
            /\ line = last
            /\ events = <<[event |-> "start", table |-> CopyMatch[h].name,
                           rows_read |-> 0]>>
            /\ queue = <<>>
            /\ pending = NoCall
            /\ live_pc = "idle"
            /\ live_count = 0
            /\ enqueued = <<>>
            /\ dequeued = <<>>
            /\ rows = <<>>
            /\ handed = <<>>
            /\ logged = <<>>
            /\ sent = <<>>
            /\ header = h
            /\ skipped = FALSE

\* the steps of the reader and of the sink writers; the live producer, which
\* logs nothing of the backup, is at rest
LogNext ==
    \/ ReadLine
    \/ EndOfStream
    \/ LoadQueueResume
    \/ \E c \in Consumers : Dequeue(c)

LogSpec == LogInit /\ [][LogNext]_vars

\* the thread in read_compressed_xz keeps running, as do the sink writers and
\* a producer suspended in load_queue
TerminatingSpec ==
    /\ Spec
    /\ WF_vars(OpenFile)
    /\ WF_vars(ReadLine \/ EndOfStream)
    /\ WF_vars(\E c \in Consumers : Dequeue(c))
    /\ WF_vars(LoadQueueResume)
    /\ WF_vars(LiveResume)

\* the sink writers keep running, and a producer suspended in load_queue keeps
\* polling the queue
FairSpec ==
    /\ Spec
    /\ WF_vars(\E c \in Consumers : Dequeue(c))
    /\ WF_vars(LoadQueueResume)
    /\ WF_vars(LiveResume)

(***************************************************************************)
(* Properties.                                                             *)
(***************************************************************************)
Last(seq) == seq[Len(seq)]

\* the number of tab-separated fields of each line
FieldCount == [l \in StrippedLines |-> Len(Split(l, "\t"))]

\* the step reads a line while a section is open
ReadsInSection == g_read_rows /\ nread' = nread + 1

\* the step reads a line while no section is open
ReadsWhileSeeking == ~g_read_rows /\ pc = "loop" /\ nread' = nread + 1

\* the tables with a registered payload decoder, and the decoder of each
RegisteredTables == {"dc_status", "mx_status", "fx_status"}

RegisteredDecoder(table, raw_packet) ==
    CASE table = "dc_status" -> dc_decoder(raw_packet)
      [] table = "mx_status" -> mx_decoder(raw_packet)
      [] table = "fx_status" -> fx_decoder(raw_packet)

\* the items of a history that the reader (not the live producer) pushed
FromReader(item) == item.measurement # "live"
ReaderItems(history) == SelectSeq(history, FromReader)

\* seq ends with tail
EndsWith(seq, tail) ==
    /\ Len(tail) <= Len(seq)
    /\ SubSeq(seq, Len(seq) - Len(tail) + 1, Len(seq)) = tail

(* C1: after a COPY line that matches the pattern but lacks a required      *)
(* column is read outside a section, the reader stays outside a section,    *)
(* and until a COPY line with all three required columns is read no line is *)
(* decoded as a row and nothing is dispatched.                              *)
C1_SkippedTableReadsNoRows ==
    [][skipped' =>
          /\ ~g_read_rows'
          /\ g_lines_read' = g_lines_read
          /\ rows' = rows
          /\ sent' = sent
          /\ pending' = pending]_vars

\* a line that would decode as a row has been read after the skipped COPY line
C1_Witness ==
    /\ skipped
    /\ ~LacksRequired(line)
    /\ \E k \in Layouts : DecodedRows[line, k].ok

(* C2: a row read inside a section with too few tab-separated fields for    *)
(* the cached indices is not dispatched, and the reader goes on reading the *)
(* rows of the same table.                                                  *)
TooFewFields(l) ==
    /\ ~IsTerminator(l)
    /\ \/ FieldCount[l] <= g_col_timestamp
       \/ FieldCount[l] <= g_col_tzoffset
       \/ FieldCount[l] <= g_col_raw

C2_ShortRowIsSkipped ==
    [][(ReadsInSection /\ TooFewFields(line')) =>
          /\ pc' = "loop"
          /\ g_read_rows'
          /\ g_table_name' = g_table_name
          /\ sent' = sent
          /\ pending' = pending]_vars

(* C3: a line starting with -- Completed read inside a section  *)
(* ends the run cleanly: the call returns with no exception and nothing is  *)
(* dispatched for the line.                                                 *)
C3_MarkerInSectionHalts ==
    [][(ReadsInSection /\ IsEndOfBackup(line')) =>
          /\ pc' = "done"
          /\ exc' = ""
          /\ sent' = sent
          /\ pending' = pending]_vars

(* C4: when the section of a table with a registered decoder is ended by a  *)
(* terminator line, the reader has enqueued exactly one item per row of the *)
(* section, in row order, each with the timestamp and the decoded payload   *)
(* of its row; these are the last items the reader put on the queue.        *)
SectionEnded == events # <<>> /\ Last(events).event = "end"

C4_OneItemPerRowInOrder ==
    (SectionEnded /\ Last(events).table \in RegisteredTables) =>
        /\ Len(sent) = Len(rows)
        /\ \A k \in 1..Len(rows) :
              /\ DecodedRows[rows[k], LayoutOf(header)].ok
              /\ sent[k].time_field = DecodedRows[rows[k], LayoutOf(header)].timestamp
              /\ sent[k].field =
                    RegisteredDecoder(Last(events).table,
                                      DecodedRows[rows[k], LayoutOf(header)].raw_packet)
        /\ EndsWith(ReaderItems(enqueued), sent)

\* a section of two different rows has been ended by a terminator line
C4_Witness ==
    /\ SectionEnded
    /\ Last(events).table = "mx_status"
    /\ Len(rows) = 2
    /\ rows[1] # rows[2]
    /\ line = "\\."

(* C5: under every interleaving of the two producers and the sink writers   *)
(* the queue length is between 0 and the capacity.                          *)
C5_LengthWithinCapacity == Len(queue) >= 0 /\ Len(queue) <= Capacity

\* the queue is full after both producers pushed and the writers took items
C5_Witness ==
    /\ Len(queue) = Capacity
    /\ live_count = MaxLive
    /\ sent # <<>>
    /\ Len(dequeued) >= NumConsumers

(* C6: the items the queue returned, followed by the items it holds, are    *)
(* the items it accepted, in the order it accepted them; so the returned    *)
(* items are a prefix of the accepted ones, and a producer stopped by a     *)
(* full queue before any dequeue finds in it exactly the items pushed.      *)
C6_FifoLossless ==
    /\ enqueued = dequeued \o queue
    /\ Len(dequeued) <= Len(enqueued)
    /\ SubSeq(enqueued, 1, Len(dequeued)) = dequeued
    /\ (pc = "load_queue" /\ dequeued = <<>>) => queue = enqueued

\* two different items have been returned while others are still queued
C6_Witness ==
    /\ Len(dequeued) >= 2
    /\ dequeued[1] # dequeued[2]
    /\ queue # <<>>
    /\ Last(queue) # dequeued[1]

(* C7: while the queue holds Capacity items no enqueue completes; once a    *)
(* dequeue has made room the waiting enqueue can complete, and when it      *)
(* completes its item is the new tail of the queue.                         *)
C7_FullQueueBlocksEnqueue ==
    /\ [][/\ Len(queue) = Capacity => enqueued' = enqueued
          /\ (pc = "load_queue" /\ pc' # "load_queue") =>
                /\ Len(queue) < Capacity
                /\ queue' = Append(queue, PackageOf(pending[1]))
          /\ (live_pc = "load_queue" /\ live_pc' # "load_queue") =>
                /\ Len(queue) < Capacity
                /\ queue' = Append(queue, LiveItem(live_count + 1))]_vars
    /\ []((pc = "load_queue" /\ Len(queue) = Capacity - 1) => ENABLED LoadQueueResume)
    /\ []((live_pc = "load_queue" /\ Len(queue) = Capacity - 1) => ENABLED LiveResume)

\* the reader waits in load_queue and exactly one dequeue has made room
C7_Witness ==
    /\ pc = "load_queue"
    /\ Len(queue) = Capacity - 1
    /\ Len(dequeued) = 1
    /\ Len(enqueued) = Capacity

(* C8: with sink writers that keep running, a producer waiting on a full    *)
(* queue eventually completes its enqueue; every accepted item is           *)
(* eventually returned, that is, again and again the returned items are all *)
(* the accepted ones; and when no producer is in an enqueue and the queue   *)
(* is empty as many items have been returned as accepted.                   *)
Quiescent ==
    /\ pc \in {"done", "raised"}
    /\ live_pc = "idle"
    /\ queue = <<>>

C8_FullQueueDrains ==
    /\ (pc = "load_queue") ~> (pc = "loop")
    /\ (live_pc = "load_queue") ~> (live_pc = "idle")
    /\ []<>(dequeued = enqueued)
    /\ [](Quiescent => Len(enqueued) = Len(dequeued))

\* the reader waits on a queue that is full again after a writer took an item
C8_Witness ==
    /\ pc = "load_queue"
    /\ live_count = MaxLive
    /\ Len(queue) = Capacity
    /\ dequeued # <<>>

(* C9: a load_queue call made while the queue is below capacity completes   *)
(* in the same step, lengthens the queue by exactly one, and puts on it the *)
(* measurement, time and fields it was called with, which is what a         *)
(* dequeue from an otherwise empty queue then returns; a producer suspends  *)
(* only on a full queue.                                                    *)
ReaderCalls ==
    /\ ReadsInSection
    /\ ~IsTerminator(line')
    /\ g_table_name \in RegisteredTables
    /\ DecodedRow(line', g_col_timestamp, g_col_tzoffset, g_col_raw).ok

ReaderPushed ==
    QueuePackage(dc_name,
                 DecodedRow(line', g_col_timestamp, g_col_tzoffset, g_col_raw).timestamp,
                 RegisteredDecoder(g_table_name,
                     DecodedRow(line', g_col_timestamp, g_col_tzoffset, g_col_raw).raw_packet))

LiveCalls == live_pc = "idle" /\ (live_pc' = "load_queue" \/ live_count' = live_count + 1)

C9_EnqueueBelowCapacity ==
    [][/\ (ReaderCalls /\ Len(queue) < Capacity) =>
             /\ pc' = "loop"
             /\ Len(queue') = Len(queue) + 1
             /\ Last(queue') = ReaderPushed
             /\ queue = <<>> => Oldest(queue') = ReaderPushed
       /\ (LiveCalls /\ Len(queue) < Capacity) =>
             /\ live_pc' = "idle"
             /\ Len(queue') = Len(queue) + 1
             /\ queue = <<>> => Oldest(queue') = LiveItem(live_count + 1)
       /\ (pc # "load_queue" /\ pc' = "load_queue") => Len(queue) = Capacity
       /\ (live_pc # "load_queue" /\ live_pc' = "load_queue") => Len(queue) = Capacity]_vars

\* the single item of the queue is the one the reader just pushed
C9_Witness ==
    /\ Len(queue) = 1
    /\ pc = "loop"
    /\ g_read_rows
    /\ sent # <<>>
    /\ queue[1] = Last(sent)
    /\ Last(rows) = line
    /\ Len(rows) = Len(sent)

(* C10: while the section opened by a COPY line that declares the three     *)
(* required columns is read, each cached index is a position of the         *)
(* declared column list, and the token at that position, with double quotes *)
(* removed and whitespace trimmed, is the column's name.                    *)
DeclaredColumns == [l \in MatchedLines |-> Columns(CopyMatch[l].columns)]

NamedAt(h, index, name) ==
    /\ index >= 0
    /\ index < Len(DeclaredColumns[h])
    /\ DeclaredColumns[h][index + 1] = name

C10_IndicesMatchDeclaration ==
    g_read_rows =>
        /\ DeclaresRequired(header)
        /\ NamedAt(header, g_col_timestamp, "timestamp")
        /\ NamedAt(header, g_col_tzoffset, "tzoffset")
        /\ NamedAt(header, g_col_raw, "raw_packet")

\* a section whose COPY line quotes a name and declares raw_packet twice
C10_Witness ==
    /\ g_read_rows
    /\ g_table_name = "fx_status"
    /\ g_col_timestamp = 1
    /\ g_col_tzoffset = 2
    /\ g_col_raw = 4
    /\ line = header

(* C11: a line starting with -- Completed read while no section is open     *)
(* ends the call without an exception; once the call has returned no line   *)
(* is read, no table is started and nothing is dispatched.                  *)
C11_MarkerWhileSeekingEndsTheRun ==
    [][/\ (ReadsWhileSeeking /\ StartsWith(line', "-- Completed")) =>
             /\ pc' = "done"
             /\ exc' = ""
             /\ reader' = reader
             /\ events' = events
             /\ sent' = sent
             /\ pending' = pending
       /\ pc = "done" =>
             /\ pc' = "done"
             /\ nread' = nread
             /\ line' = line
             /\ reader' = reader
             /\ events' = events
             /\ rows' = rows
             /\ sent' = sent
             /\ pending' = pending]_vars

\* the marker was read after a section, with lines of the stream left unread
C11_Witness ==
    /\ pc = "done"
    /\ ~g_read_rows
    /\ StartsWith(line, "-- Completed")
    /\ Len(events) = 2
    /\ nread < MaxLines

(* C12: a line equal to \. or an empty line read inside a section ends the  *)
(* section: one table-end event for the open table is emitted, no section   *)
(* is open afterwards, the line is not counted in rows_read and nothing is  *)
(* dispatched for it.                                                       *)
C12_TerminatorEndsSection ==
    [][(ReadsInSection /\ (line' = "\\." \/ line' = "")) =>
          /\ events' = Append(events, [event |-> "end", table |-> g_table_name,
                                       rows_read |-> g_lines_read])
          /\ ~g_read_rows'
          /\ g_table_name' = g_table_name
          /\ g_lines_read' = g_lines_read
          /\ rows' = rows
          /\ handed' = handed
          /\ sent' = sent
          /\ pending' = pending
          /\ queue' = queue
          /\ pc' = "loop"]_vars

\* a section of one row has just been ended by an empty line
C12_Witness ==
    /\ line = ""
    /\ nread = 3
    /\ Len(events) = 2
    /\ Last(events).event = "end"
    /\ Last(events).rows_read = 1
    /\ ~g_read_rows

(* C13: rows_read is the number of rows the open section has consumed: 0    *)
(* when the section starts, whatever earlier sections read; the k-th row    *)
(* of a section is handed to the dispatcher with row number k; and the      *)
(* count reported at the end of a section is the number of its rows.        *)
C13_RowsReadCountsTheSection ==
    /\ g_read_rows => g_lines_read = Len(rows)
    /\ \A k \in 1..Len(handed) : handed[k] = k
    /\ Len(handed) <= Len(rows)
    /\ SectionEnded => Last(events).rows_read = Len(rows)
    /\ (events # <<>> /\ Last(events).event = "start" /\ rows = <<>>) =>
          g_lines_read = 0

\* a second section starts after a section that read rows
C13_Witness ==
    /\ g_read_rows
    /\ Len(events) = 3
    /\ events[2].rows_read >= 1
    /\ rows = <<>>
    /\ g_lines_read = 0

(* C14: a row that decodes, of a table with the three required columns and  *)
(* no registered decoder, is counted and handed to the dispatcher, which    *)
(* enqueues nothing and raises nothing; the section stays open.             *)
C14_UnregisteredTableDispatchesNothing ==
    [][(/\ ReadsInSection
        /\ line' # "\\."
        /\ line' # ""
        /\ g_table_name \notin RegisteredTables
        /\ DecodedRow(line', g_col_timestamp, g_col_tzoffset, g_col_raw).ok) =>
          /\ pc' = "loop"
          /\ exc' = exc
          /\ g_read_rows'
          /\ g_table_name' = g_table_name
          /\ handed' = Append(handed, g_lines_read + 1)
          /\ queue' = queue
          /\ enqueued' = enqueued
          /\ sent' = sent
          /\ pending' = pending]_vars

\* two rows of a table outside the branches of _column_in have been read
C14_Witness ==
    /\ g_read_rows
    /\ g_table_name = "fx_logpage"
    /\ handed = <<1, 2>>
    /\ sent = <<>>
    /\ pc = "loop"

(* C15: the measurement name of an item enqueued for a row is determined by *)
(* the row's table: the name under which a row of the open table was        *)
(* enqueued is not the name _column_in gives a row of another table with a  *)
(* registered decoder.                                                      *)
NamesFor(table, item) ==
    {ColumnIn(table, 1, item.time_field, item.field.packet)[k].measurement :
        k \in 1..Len(ColumnIn(table, 1, item.time_field, item.field.packet))}

C15_MeasurementNamedByTable ==
    \A i \in 1..Len(sent) :
        \A table \in RegisteredTables \ {g_table_name} :
            sent[i].measurement \notin NamesFor(table, sent[i])

(* C16: a line read while no section is open that is neither a COPY line    *)
(* matching the pattern nor an end-of-backup marker leaves the table name,  *)
(* the three indices, rows_read and the reading flag as they were, emits    *)
(* no event and dispatches nothing; the loop goes on.                       *)
C16_OtherLinesAreIgnored ==
    [][(/\ ReadsWhileSeeking
        /\ ~CopyMatch[line'].matched
        /\ ~StartsWith(line', "-- Completed")) =>
          /\ reader' = reader
          /\ pc' = "loop"
          /\ exc' = exc
          /\ events' = events
          /\ queue' = queue
          /\ enqueued' = enqueued
          /\ sent' = sent
          /\ pending' = pending]_vars

\* a COPY line without a column list has been read after a closed section
C16_Witness ==
    /\ ~g_read_rows
    /\ pc = "loop"
    /\ StartsWith(line, "COPY ")
    /\ ~CopyMatch[line].matched
    /\ Len(events) = 2
    /\ g_table_name # None

(* C17: while a section is open, the table name and the three cached        *)
(* indices are those of the COPY line that opened it, whatever sections and *)
(* skipped COPY lines came before.                                          *)
C17_SectionKeepsItsHeader ==
    g_read_rows =>
        /\ DeclaresRequired(header)
        /\ g_table_name = CopyMatch[header].name
        /\ <<g_col_timestamp, g_col_tzoffset, g_col_raw>> = LayoutOf(header)

\* a section is open after a section of a table with another column layout
C17_Witness ==
    /\ g_read_rows
    /\ Len(events) = 3
    /\ events[1].table = "fx_status"
    /\ g_table_name = "dc_status"
    /\ rows # <<>>

(* C18: the fields decoded for a row are those at the cached positions of   *)
(* the tab-separated field list of the line as the stream holds it (without *)
(* its newline), also when the first or the last field is empty: the row    *)
(* raises exactly when those fields do not decode, and otherwise yields     *)
(* their timestamp and payload.                                             *)
WithoutNewline(text) ==
    IF Len(text) > 0 /\ CharAt(text, Len(text)) = "\n"
    THEN SubSeq(text, 1, Len(text) - 1)
    ELSE text

FieldsOf(text) == Split(WithoutNewline(text), "\t")

StreamRows ==
    [text \in Lines, k \in Layouts |-> DecodeCells(FieldsOf(text), k[1], k[2], k[3])]

C18_FieldsAtIndexPositions ==
    [][(ReadsInSection /\ line' # "\\." /\ line' # "") =>
          \A text \in Lines :
              StrippedLine[text] = line' =>
                  /\ (pc' = "raised") =
                        ~StreamRows[text, <<g_col_timestamp, g_col_tzoffset, g_col_raw>>].ok
                  /\ DecodedRow(line', g_col_timestamp, g_col_tzoffset, g_col_raw) =
                        StreamRows[text, <<g_col_timestamp, g_col_tzoffset, g_col_raw>>]]_vars

(* C19: table-start and table-end events alternate, beginning with a start; *)
(* each end names the table of the start before it; a section is open       *)
(* exactly after a start; a start is emitted only for a COPY line with the  *)
(* three required columns read while no section is open, so a COPY line     *)
(* read inside a section starts no section.                                 *)
EventsAlternate ==
    /\ \A i \in 1..Len(events) :
          /\ events[i].event = (IF i % 2 = 1 THEN "start" ELSE "end")
          /\ i % 2 = 0 => events[i].table = events[i - 1].table
    /\ g_read_rows <=> (events # <<>> /\ Last(events).event = "start")

C19_StartAndEndAlternate ==
    /\ []EventsAlternate
    /\ [][/\ (events' # events /\ Last(events').event = "start") =>
                /\ ReadsWhileSeeking
                /\ DeclaresRequired(line')
                /\ Last(events').table = CopyMatch[line'].name
          /\ (ReadsInSection /\ StartsWith(line', "COPY ")) =>
                /\ events' = events
                /\ g_table_name' = g_table_name
                /\ header' = header]_vars

\* a COPY line has been read inside the only section started
C19_Witness ==
    /\ StartsWith(line, "COPY ")
    /\ rows # <<>>
    /\ Last(rows) = line
    /\ Len(events) = 1
    /\ g_read_rows

(* C20: with the reading thread and the sink writers running, the call      *)
(* returns or raises on every stream; however it ends, the handle is not    *)
(* left open, and it is closed whenever the stream had been opened.         *)
Ended == pc \in {"done", "raised"}

C20_TerminatesWithHandleClosed ==
    /\ <>Ended
    /\ [](Ended => open_file # "open")
    /\ []((pc = "done" \/ (pc = "raised" /\ exc # "OSError")) => open_file = "closed")
    /\ [](open_file = "open" => pc \in {"loop", "load_queue"})

\* a row raised in the middle of the stream and the handle is closed
C20_Witness ==
    /\ pc = "raised"
    /\ exc = IndexError
    /\ open_file = "closed"
    /\ nread < MaxLines

(* C21, as claimed: a payload field of 3 characters followed by an          *)
(* even-length string of hex digits decodes to the bytes of that string; a  *)
(* field whose remainder after the first 3 characters has odd length or     *)
(* holds a character that is no hex digit raises a decode error and nothing *)
(* is enqueued for the row.                                                 *)
CurrentLayout == <<g_col_timestamp, g_col_tzoffset, g_col_raw>>

\* the line has a field at each of the three positions of layout k
HasFields == [l \in StrippedLines, k \in Layouts |->
                 FieldCount[l] > k[1] /\ FieldCount[l] > k[2] /\ FieldCount[l] > k[3]]

FieldAt(l, i) == IF FieldCount[l] > i THEN Split(l, "\t")[i + 1] ELSE ""

\* the payload field of each line without its first 3 characters
PayloadRemainder ==
    [l \in StrippedLines, k \in Layouts |->
        SubSeq(FieldAt(l, k[3]), 4, Len(FieldAt(l, k[3])))]

\* the timestamp and the offset of the line decode
OtherFieldsDecode ==
    [l \in StrippedLines, k \in Layouts |->
        ParseTimestamp(FieldAt(l, k[1])).ok /\ ParseInt(FieldAt(l, k[2])).ok]

AllHex(r) == \A i \in 1..Len(r) : CharAt(r, i) \in HexDigits

EvenHex(r) == Len(r) % 2 = 0 /\ AllHex(r)

BytesOf(r) ==
    [i \in 1..(Len(r) \div 2) |->
        16 * HexValue(CharAt(r, 2 * i - 1)) + HexValue(CharAt(r, 2 * i))]

\* the step handles the line as a row whose three fields exist
DecodesFields ==
    /\ ReadsInSection
    /\ line' # "\\."
    /\ line' # ""
    /\ HasFields[line', CurrentLayout]

NothingEnqueued ==
    /\ sent' = sent
    /\ pending' = pending
    /\ queue' = queue
    /\ handed' = handed

\* the packet of the load_queue call the step made, completed or suspended
PacketCalled ==
    IF pc' = "load_queue" THEN pending'[1].payload.packet ELSE Last(sent').field.packet

DecodesTo(bytes) ==
    /\ pc' # "raised"
    /\ DecodedRow(line', g_col_timestamp, g_col_tzoffset, g_col_raw).raw_packet = bytes
    /\ g_table_name \in RegisteredTables => PacketCalled = bytes

C21_HexPayloadDecodes ==
    [][DecodesFields =>
          /\ (/\ EvenHex(PayloadRemainder[line', CurrentLayout])
              /\ OtherFieldsDecode[line', CurrentLayout]) =>
                DecodesTo(BytesOf(PayloadRemainder[line', CurrentLayout]))
          /\ ~EvenHex(PayloadRemainder[line', CurrentLayout]) =>
                /\ pc' = "raised"
                /\ exc' = ValueError
                /\ NothingEnqueued]_vars

(* C21, amended: whitespace in front of a byte pair or at the end of the    *)
(* remainder is skipped.  The remainder decodes to the bytes of its pairs   *)
(* of hex digits when its other characters pair up as adjacent hex digits;  *)
(* otherwise ValueError is raised and nothing is enqueued for the row.      *)
\* the position of the j-th character of r that is no whitespace
InkAt(r, j) == CHOOSE i \in Inked(r) : Cardinality({k \in Inked(r) : k <= i}) = j

PairsUp(r) ==
    /\ Cardinality(Inked(r)) % 2 = 0
    /\ \A j \in 1..Cardinality(Inked(r)) :
          /\ CharAt(r, InkAt(r, j)) \in HexDigits
          /\ j % 2 = 1 => InkAt(r, j + 1) = InkAt(r, j) + 1

PairBytes(r) ==
    [j \in 1..(Cardinality(Inked(r)) \div 2) |->
        16 * HexValue(CharAt(r, InkAt(r, 2 * j - 1)))
            + HexValue(CharAt(r, InkAt(r, 2 * j)))]

RemainderPairsUp ==
    [l \in StrippedLines, k \in Layouts |-> PairsUp(PayloadRemainder[l, k])]

C21_HexPayloadDecodesSkippingBlanks ==
    [][DecodesFields =>
          /\ (/\ RemainderPairsUp[line', CurrentLayout]
              /\ OtherFieldsDecode[line', CurrentLayout]) =>
                DecodesTo(PairBytes(PayloadRemainder[line', CurrentLayout]))
          /\ ~RemainderPairsUp[line', CurrentLayout] =>
                /\ pc' = "raised"
                /\ exc' = ValueError
                /\ NothingEnqueued]_vars

\* a row whose payload holds a blank between two byte pairs has been enqueued
C21_Witness ==
    /\ g_read_rows
    /\ rows # <<>>
    /\ Last(rows) = line
    /\ ~EvenHex(PayloadRemainder[line, CurrentLayout])
    /\ sent # <<>>
    /\ Last(sent).field.packet = <<10, 11>>
    /\ Len(handed) = Len(rows)

(* C22: logging is sampled.  For every row handed to the dispatcher the     *)
(* progress line is logged exactly when the row number is a multiple of     *)
(* 100000, and the log flag of the enqueue made for the row is true exactly *)
(* when the row number is a multiple of 50; so of two consecutive rows of a *)
(* section at most one logs.                                                *)
Logs(entry) ==
    entry.progress \/ \E j \in 1..Len(entry.queue_log) : entry.queue_log[j]

C22_LoggingIsSampled ==
    /\ \A k \in 1..Len(logged) :
          /\ logged[k].progress = (logged[k].row_num % 100000 = 0)
          /\ \A j \in 1..Len(logged[k].queue_log) :
                logged[k].queue_log[j] = (logged[k].row_num % 50 = 0)
          /\ Len(logged[k].queue_log) =
                (IF Last(events).table \in RegisteredTables THEN 1 ELSE 0)
    /\ \A k \in 1..(Len(logged) - 1) :
          /\ logged[k + 1].row_num = logged[k].row_num + 1
          /\ ~(Logs(logged[k]) /\ Logs(logged[k + 1]))

\* rows 99999, 100000 and 100001 of a section: only the middle one logs
C22_Witness ==
    /\ Len(logged) = 3
    /\ logged[2].row_num = 100000
    /\ logged[2].progress
    /\ logged[2].queue_log = <<TRUE>>
    /\ ~Logs(logged[1])
    /\ ~Logs(logged[3])

=============================================================================
